---- MODULE Spec2Model ----
(***************************************************************************)
(* Model of xtask/src/main.rs of arceos-readpflash: the build-and-run      *)
(* orchestrator (arch_info, install_config, do_build, do_objcopy,          *)
(* find_seabios, pflash_size, create_pflash_image, do_run_qemu, main).     *)
(*                                                                         *)
(* One invocation of the tool is a process that walks through main's calls *)
(* in order; each call is one action.  The files the tool shares between   *)
(* invocations (.axconfig.toml, pflash.img, the ELF and .bin artifacts)    *)
(* are global variables.  External tools (cargo, rust-objcopy, qemu) and   *)
(* the host filesystem answer nondeterministically.                        *)
(*                                                                         *)
(* Sizes: the flash banks are 32, 64, 4 and 4 times 1024*1024 bytes.  The  *)
(* model keeps the multipliers and measures them in a unit of MiB bytes    *)
(* that is scaled down so that whole images are explicit byte sequences.   *)
(***************************************************************************)
EXTENDS Integers, Sequences, FiniteSets, TLC

\* ------------------------------------------------------------- bounds
\* Scaled number of bytes in the unit that main.rs writes as 1024 * 1024.
MiB == 2
\* How many bytes past the size limit the largest firmware blob tried is.
FwOver == 1

\* ---------------------------------------------------------- constants
\* vec![0xFFu8; size]
ERASED == 255
\* Exit code of a Rust process that panics (assert!, expect).
PANIC_EXIT == 101
\* Length of the magic, and the 4 of `size - 4`.
MAGIC_LEN == 4

\* b"PFLA"
MAGIC == <<80, 70, 76, 65>>

Procs == {"inv1", "inv2"}

Supported == {"riscv64", "aarch64", "x86_64", "loongarch64"}
\* --arch is a free String: one unsupported name stands for all others.
ArchInputs == Supported \cup {"mips64"}
Cmds == {"build", "run"}

\* Non-zero exit codes a child tool is seen to return.
ChildCodes == {2, 101}
\* std::process::ExitStatus: code() is None when a signal ended the child.
ExitStatuses ==
    {[has_code |-> TRUE, code |-> c] : c \in {0} \cup ChildCodes}
        \cup {[has_code |-> FALSE, code |-> 0]}
success(st) == st.has_code /\ st.code = 0
code_unwrap_or(st, d) == IF st.has_code THEN st.code ELSE d

\* ------------------------------------------------------------ registry
NoInfo == [target |-> "", platform |-> "", objcopy_arch |-> ""]

\* A mutant: the wildcard arm hands out a default profile instead of exiting.
arch_info_default(a) ==
    CASE a = "aarch64" ->
           [target |-> "aarch64-unknown-none-softfloat",
            platform |-> "aarch64-qemu-virt", objcopy_arch |-> "aarch64"]
      [] a = "x86_64" ->
           [target |-> "x86_64-unknown-none",
            platform |-> "x86-pc", objcopy_arch |-> "x86_64"]
      [] a = "loongarch64" ->
           [target |-> "loongarch64-unknown-none",
            platform |-> "loongarch64-qemu-virt", objcopy_arch |-> "loongarch64"]
      [] OTHER ->
           [target |-> "riscv64gc-unknown-none-elf",
            platform |-> "riscv64-qemu-virt", objcopy_arch |-> "riscv64"]

\* arch_info: NoInfo stands for the wildcard arm, which exits the process.
arch_info(a) ==
    CASE a = "riscv64" ->
           [target |-> "riscv64gc-unknown-none-elf",
            platform |-> "riscv64-qemu-virt", objcopy_arch |-> "riscv64"]
      [] a = "aarch64" ->
           [target |-> "aarch64-unknown-none-softfloat",
            platform |-> "aarch64-qemu-virt", objcopy_arch |-> "aarch64"]
      [] a = "x86_64" ->
           [target |-> "x86_64-unknown-none",
            platform |-> "x86-pc", objcopy_arch |-> "x86_64"]
      [] a = "loongarch64" ->
           [target |-> "loongarch64-unknown-none",
            platform |-> "loongarch64-qemu-virt", objcopy_arch |-> "loongarch64"]
      [] OTHER -> NoInfo

\* pflash_size, in units of MiB bytes.
pflash_size(a) ==
    CASE a = "riscv64" -> 32 * MiB
      [] a = "aarch64" -> 64 * MiB
      [] a = "x86_64" -> 4 * MiB
      [] a = "loongarch64" -> 4 * MiB
      [] OTHER -> 4 * MiB

\* --------------------------------------------------------------- paths
project_root == "/work"
pflash_path == project_root \o "/pflash.img"
\* root.join("target").join(info.target).join("release").join("arceos-readpflash")
elf_path(info) ==
    project_root \o "/target/" \o info.target \o "/release/arceos-readpflash"
\* elf.with_extension("bin"): the file name has no extension to replace.
bin_path(info) == elf_path(info) \o ".bin"

ArtifactPaths ==
    UNION {{elf_path(arch_info(a)), bin_path(arch_info(a))} : a \in ArchInputs}

\* --------------------------------------------------------- flash image
\* vec![0xFFu8; size]
Fill(size) == [i \in 1..size |-> ERASED]

\* buf[start .. start + len(src)].copy_from_slice(src), start counted from 0.
copy_from_slice(buf, start, src) ==
    [i \in 1..Len(buf) |->
        IF i > start /\ i <= start + Len(src) THEN src[i - start] ELSE buf[i]]

\* The buffer after the magic is written.
with_magic(size) == copy_from_slice(Fill(size), 0, MAGIC)

\* A mutant: the assertion forgets the four bytes of the magic.
bios_fits_whole(bios_size, size) == bios_size <= size

\* A mutant: the assertion is compiled out.
bios_fits_unchecked(bios_size, size) == TRUE

\* assert!(bios_size <= size - 4)
bios_fits(bios_size, size) == bios_size <= size - MAGIC_LEN

\* A mutant: the firmware is copied right behind the magic, not to the tail.
embed_bios_head(image, bios_data) ==
    copy_from_slice(image, MAGIC_LEN, bios_data)

\* image[size - bios_size..].copy_from_slice(&bios_data)
embed_bios(image, bios_data) ==
    copy_from_slice(image, Len(image) - Len(bios_data), bios_data)

\* The candidate list of find_seabios, in order.
seabios_candidates ==
    <<"/usr/share/qemu/bios-256k.bin", "/usr/share/seabios/bios-256k.bin",
      "/usr/local/share/qemu/bios-256k.bin", "/usr/share/qemu/bios.bin",
      "/usr/share/seabios/bios.bin">>

\* find_seabios: the first candidate that exists, "" when none does.
find_seabios(present) ==
    IF \E i \in DOMAIN seabios_candidates : seabios_candidates[i] \in present
    THEN seabios_candidates[
             CHOOSE i \in DOMAIN seabios_candidates :
                 /\ seabios_candidates[i] \in present
                 /\ \A j \in 1..(i - 1) : seabios_candidates[j] \notin present]
    ELSE ""

\* Firmware files the host may hold: every length up to FwOver bytes past
\* the x86_64 limit, bytes that differ by position.
FwSeeds == {0, 79}
Blob(n, seed) == [i \in 1..n |-> (seed + i) % 256]
FirmwareBlobs ==
    {Blob(n, s) : n \in 0..(pflash_size("x86_64") - MAGIC_LEN + FwOver),
                  s \in FwSeeds}
\* Which candidates exist on the host.
PresentChoices ==
    {{}, {seabios_candidates[1]}, {seabios_candidates[5]},
     {seabios_candidates[2], seabios_candidates[4]}}

NoImage == [exists |-> FALSE, data |-> <<>>]
File(bytes) == [exists |-> TRUE, data |-> bytes]

\* ------------------------------------------------------- emulator args
\* A mutant: the loongarch64 arm attaches the image as unit 0.
qemu_args_unit0(a, elf, bin, pflash) ==
    LET common == <<"-m", "128M", "-smp", "1", "-nographic">>
    IN  CASE a = "riscv64" ->
               common \o <<"-machine", "virt", "-bios", "default",
                           "-kernel", bin, "-drive",
                           "if=pflash,format=raw,unit=1,file=" \o pflash
                               \o ",readonly=on">>
          [] a = "aarch64" ->
               common \o <<"-cpu", "cortex-a72", "-machine", "virt",
                           "-kernel", bin, "-drive",
                           "if=pflash,format=raw,unit=1,file=" \o pflash
                               \o ",readonly=on">>
          [] a = "x86_64" ->
               common \o <<"-machine", "q35", "-drive",
                           "if=pflash,format=raw,unit=0,file=" \o pflash
                               \o ",readonly=on",
                           "-kernel", elf>>
          [] a = "loongarch64" ->
               common \o <<"-machine", "virt", "-drive",
                           "if=pflash,format=raw,unit=0,file=" \o pflash
                               \o ",readonly=on",
                           "-kernel", bin>>
          [] OTHER -> <<>>

\* The Vec<String> that do_run_qemu builds; <<>> stands for the
\* unreachable!() arm.
qemu_args(a, elf, bin, pflash) ==
    LET common == <<"-m", "128M", "-smp", "1", "-nographic">>
    IN  CASE a = "riscv64" ->
               common \o <<"-machine", "virt", "-bios", "default",
                           "-kernel", bin, "-drive",
                           "if=pflash,format=raw,unit=1,file=" \o pflash
                               \o ",readonly=on">>
          [] a = "aarch64" ->
               common \o <<"-cpu", "cortex-a72", "-machine", "virt",
                           "-kernel", bin, "-drive",
                           "if=pflash,format=raw,unit=1,file=" \o pflash
                               \o ",readonly=on">>
          [] a = "x86_64" ->
               common \o <<"-machine", "q35", "-drive",
                           "if=pflash,format=raw,unit=0,file=" \o pflash
                               \o ",readonly=on",
                           "-kernel", elf>>
          [] a = "loongarch64" ->
               common \o <<"-machine", "virt", "-drive",
                           "if=pflash,format=raw,unit=1,file=" \o pflash
                               \o ",readonly=on",
                           "-kernel", bin>>
          [] OTHER -> <<>>

\* The arguments do_objcopy hands to rust-objcopy.
objcopy_args(elf, bin, objcopy_arch) ==
    <<"--binary-architecture=" \o objcopy_arch, elf, "--strip-all", "-O",
      "binary", bin>>

\* The value that follows `flag` in an argument list ("" when absent).
ArgAfter(args, flag) ==
    IF \E i \in 1..(Len(args) - 1) : args[i] = flag
    THEN args[(CHOOSE i \in 1..(Len(args) - 1) : args[i] = flag) + 1]
    ELSE ""

\* ---------------------------------------------------------------- state
VARIABLES
    proc,        \* per invocation: the position in main and its locals
    axconfig,    \* .axconfig.toml: "" or the arch whose config was copied
    pflash_img,  \* pflash.img: NoImage or File(bytes)
    artifacts    \* ELF and .bin files: "" (absent), "stale", or the
                 \* invocation whose compile produced the ELF content

vars == <<proc, axconfig, pflash_img, artifacts>>

NoEmu == [launched |-> FALSE, kernel |-> "", image |-> NoImage]

FreshProc(pc0) ==
    [pc |-> pc0, cmd |-> "", arch |-> "", info |-> NoInfo, steps |-> <<>>,
     exit_code |-> 0, err |-> "", failed_child |-> <<>>,
     objcopy_args |-> <<>>, bios_data |-> <<>>, image |-> <<>>,
     write |-> "none", built_with |-> "", args |-> <<>>, emu |-> NoEmu]

\* The files a finished earlier run for `prev` leaves behind ("" : none).
StaleFiles(prev) ==
    /\ axconfig = prev
    /\ pflash_img =
         IF prev = "" THEN NoImage
         ELSE IF prev = "x86_64"
              THEN File(embed_bios(with_magic(pflash_size(prev)), Blob(MiB, 0)))
              ELSE File(with_magic(pflash_size(prev)))
    /\ artifacts =
         [f \in ArtifactPaths |->
            IF prev # "" /\ f = elf_path(arch_info(prev)) THEN "stale"
            ELSE IF prev \notin {"", "x86_64"} /\ f = bin_path(arch_info(prev))
                 THEN "stale" ELSE ""]

\* One invocation alone.
Init ==
    /\ proc = [p \in Procs |-> FreshProc(IF p = "inv1" THEN "parse" ELSE "off")]
    /\ \E prev \in Supported \cup {""} : StaleFiles(prev)

\* Two invocations against the same project root.
InitConc ==
    /\ proc = [p \in Procs |-> FreshProc("parse")]
    /\ \E prev \in {"", "aarch64"} : StaleFiles(prev)

\* ------------------------------------------------------- main's sequence
\* A mutant: main goes from the compile straight to the flash image.
main_next_skip_objcopy(c, a, step) ==
    CASE step = "parse" -> "arch_info"
      [] step = "arch_info" -> "install_config"
      [] step = "install_config" -> "do_build"
      [] step = "do_build" ->
           IF c = "build" THEN "return" ELSE "create_pflash_image"
      [] step = "create_pflash_image" -> "do_run_qemu"
      [] OTHER -> "return"

\* A mutant: main compiles without installing the config first.
main_next_skip_install(c, a, step) ==
    CASE step = "parse" -> "arch_info"
      [] step = "arch_info" -> "do_build"
      [] step = "do_build" ->
           IF c = "build" THEN "return"
           ELSE IF a # "x86_64" THEN "do_objcopy"
           ELSE "create_pflash_image"
      [] step = "do_objcopy" -> "create_pflash_image"
      [] step = "create_pflash_image" -> "do_run_qemu"
      [] OTHER -> "return"

\* A mutant: main flattens for x86_64 too and skips it for loongarch64.
main_next_wrong_objcopy(c, a, step) ==
    CASE step = "parse" -> "arch_info"
      [] step = "arch_info" -> "install_config"
      [] step = "install_config" -> "do_build"
      [] step = "do_build" ->
           IF c = "build" THEN "return"
           ELSE IF a # "loongarch64" THEN "do_objcopy"
           ELSE "create_pflash_image"
      [] step = "do_objcopy" -> "create_pflash_image"
      [] step = "create_pflash_image" -> "do_run_qemu"
      [] OTHER -> "return"

\* The call that follows `step` in main, "return" at the end of the arm.
main_next(c, a, step) ==
    CASE step = "parse" -> "arch_info"
      [] step = "arch_info" -> "install_config"
      [] step = "install_config" -> "do_build"
      [] step = "do_build" ->
           IF c = "build" THEN "return"
           ELSE IF a # "x86_64" THEN "do_objcopy"
           ELSE "create_pflash_image"
      [] step = "do_objcopy" -> "create_pflash_image"
      [] step = "create_pflash_image" -> "do_run_qemu"
      [] OTHER -> "return"

\* The invocation record once `step` has returned normally; falling off
\* the end of main exits with code 0.
Returned(r, step) ==
    LET nxt == main_next(r.cmd, r.arch, step)
    IN  IF nxt = "return"
        THEN [r EXCEPT !.pc = "exited", !.exit_code = 0]
        ELSE [r EXCEPT !.pc = nxt]

\* process::exit(code) after the diagnostic for `e`.
Exited(r, code, e) ==
    [r EXCEPT !.pc = "exited", !.exit_code = code, !.err = e]

\* A mutant: the child's failure is reported but the process::exit is
\* missing, so the caller carries on.
ChildFailed_swallowed(r, st, e) ==
    [Returned(r, r.steps[Len(r.steps)]) EXCEPT
        !.err = e, !.failed_child = <<st>>]

\* process::exit(status.code().unwrap_or(1)) after a child failed.
ChildFailed(r, st, e) ==
    [Exited(r, code_unwrap_or(st, 1), e) EXCEPT !.failed_child = <<st>>]

\* The record as `step` starts.
Entered(r, step) == [r EXCEPT !.steps = Append(@, step)]

\* -------------------------------------------------------------- actions
\* Cli::parse: the subcommand and --arch of this invocation.
Parse(p) ==
    /\ proc[p].pc = "parse"
    /\ \E c \in Cmds, a \in ArchInputs :
         proc' = [proc EXCEPT
                    ![p] = Returned([@ EXCEPT !.cmd = c, !.arch = a], "parse")]
    /\ UNCHANGED <<axconfig, pflash_img, artifacts>>

\* let info = arch_info(arch): the wildcard arm prints and exits with 1.
ArchInfo(p) ==
    /\ proc[p].pc = "arch_info"
    /\ LET r == Entered(proc[p], "arch_info")
           info == arch_info(r.arch)
       IN  proc' = [proc EXCEPT ![p] =
                      IF info = NoInfo
                      THEN Exited(r, 1, "UnsupportedArchitecture")
                      ELSE Returned([r EXCEPT !.info = info], "arch_info")]
    /\ UNCHANGED <<axconfig, pflash_img, artifacts>>

\* install_config: configs/<arch>.toml is copied over .axconfig.toml.
InstallConfig(p) ==
    /\ proc[p].pc = "install_config"
    /\ LET r == Entered(proc[p], "install_config")
       IN  \/ /\ proc' = [proc EXCEPT ![p] = Exited(r, 1, "ConfigNotFound")]
              /\ UNCHANGED axconfig
           \/ /\ proc' = [proc EXCEPT ![p] = Exited(r, 1, "ConfigCopyFailed")]
              /\ UNCHANGED axconfig
           \/ /\ axconfig' = r.arch
              /\ proc' = [proc EXCEPT ![p] = Returned(r, "install_config")]
    /\ UNCHANGED <<pflash_img, artifacts>>

\* do_build: cargo build --release --target <info.target>; the compile
\* reads the active config and, on success, leaves the ELF.
DoBuild(p) ==
    /\ proc[p].pc = "do_build"
    /\ LET r == Entered(proc[p], "do_build")
       IN  \/ /\ proc' = [proc EXCEPT ![p] =
                            Exited(r, PANIC_EXIT, "CompileSpawnFailed")]
              /\ UNCHANGED artifacts
           \/ \E st \in ExitStatuses :
                LET ran == [r EXCEPT !.built_with = axconfig]
                IN  IF success(st)
                    THEN /\ artifacts' =
                              [artifacts EXCEPT ![elf_path(r.info)] = p]
                         /\ proc' = [proc EXCEPT ![p] = Returned(ran, "do_build")]
                    ELSE /\ proc' = [proc EXCEPT ![p] =
                                       ChildFailed(ran, st, "CompileFailed")]
                         /\ UNCHANGED artifacts
    /\ UNCHANGED <<axconfig, pflash_img>>

\* do_objcopy: rust-objcopy flattens the ELF on disk into the .bin.
DoObjcopy(p) ==
    /\ proc[p].pc = "do_objcopy"
    /\ LET elf == elf_path(proc[p].info)
           bin == bin_path(proc[p].info)
           r == [Entered(proc[p], "do_objcopy") EXCEPT
                   !.objcopy_args =
                       objcopy_args(elf, bin, proc[p].info.objcopy_arch)]
       IN  \/ /\ proc' = [proc EXCEPT ![p] =
                            Exited(r, PANIC_EXIT, "FlattenSpawnFailed")]
              /\ UNCHANGED artifacts
           \/ \E st \in ExitStatuses :
                /\ success(st) => artifacts[elf] # ""
                /\ IF success(st)
                   THEN /\ artifacts' = [artifacts EXCEPT ![bin] = artifacts[elf]]
                        /\ proc' = [proc EXCEPT ![p] = Returned(r, "do_objcopy")]
                   ELSE /\ proc' = [proc EXCEPT ![p] =
                                      ChildFailed(r, st, "FlattenFailed")]
                        /\ UNCHANGED artifacts
    /\ UNCHANGED <<axconfig, pflash_img>>

\* std::fs::write(&pflash_path, &image) and the return of the path; a
\* failed write leaves the old file or a truncated one.
WriteImage(p, r) ==
    \/ /\ pflash_img' = File(r.image)
       /\ proc' = [proc EXCEPT ![p] =
                     Returned([r EXCEPT !.write = "ok"], "create_pflash_image")]
    \/ /\ pflash_img' \in {pflash_img, File(<<>>)}
       /\ proc' = [proc EXCEPT ![p] =
                     Exited([r EXCEPT !.write = "failed"], 1, "ImageWriteFailed")]

\* create_pflash_image.
CreatePflashImage(p) ==
    /\ proc[p].pc = "create_pflash_image"
    /\ LET r == Entered(proc[p], "create_pflash_image")
           size == pflash_size(r.arch)
           image == with_magic(size)
       IN  IF r.arch = "x86_64"
           THEN \E present \in PresentChoices :
                  IF find_seabios(present) = ""
                  THEN /\ proc' = [proc EXCEPT ![p] =
                                     Exited(r, 1, "FirmwareNotFound")]
                       /\ UNCHANGED pflash_img
                  ELSE \/ /\ proc' = [proc EXCEPT ![p] =
                                        Exited(r, 1, "FirmwareReadFailed")]
                          /\ UNCHANGED pflash_img
                       \/ \E bios_data \in FirmwareBlobs :
                            IF bios_fits(Len(bios_data), size)
                            THEN WriteImage(p,
                                   [r EXCEPT !.bios_data = bios_data,
                                             !.image = embed_bios(image, bios_data)])
                            ELSE /\ proc' = [proc EXCEPT ![p] =
                                     Exited([r EXCEPT !.bios_data = bios_data],
                                            PANIC_EXIT, "FirmwareTooLarge")]
                                 /\ UNCHANGED pflash_img
           ELSE WriteImage(p, [r EXCEPT !.image = image])
    /\ UNCHANGED <<axconfig, artifacts>>

\* do_run_qemu: the emulator opens the kernel and the flash image named in
\* its arguments when it is spawned.
DoRunQemu(p) ==
    /\ proc[p].pc = "do_run_qemu"
    /\ LET r == Entered(proc[p], "do_run_qemu")
           args == qemu_args(r.arch, elf_path(r.info), bin_path(r.info),
                             pflash_path)
           built == [r EXCEPT !.args = args]
       IN  IF args = <<>>
           THEN proc' = [proc EXCEPT ![p] = Exited(r, PANIC_EXIT, "Unreachable")]
           ELSE \/ proc' = [proc EXCEPT ![p] =
                              Exited(built, 1, "EmulatorLaunchFailed")]
                \/ \E st \in ExitStatuses :
                     LET ran == [built EXCEPT !.emu =
                                   [launched |-> TRUE,
                                    kernel |-> artifacts[ArgAfter(args, "-kernel")],
                                    image |-> pflash_img]]
                     IN  proc' = [proc EXCEPT ![p] =
                                    IF success(st)
                                    THEN Returned(ran, "do_run_qemu")
                                    ELSE ChildFailed(ran, st, "EmulatorFailed")]
    /\ UNCHANGED <<axconfig, pflash_img, artifacts>>

Next ==
    \E p \in Procs :
        \/ Parse(p)
        \/ ArchInfo(p)
        \/ InstallConfig(p)
        \/ DoBuild(p)
        \/ DoObjcopy(p)
        \/ CreatePflashImage(p)
        \/ DoRunQemu(p)

Spec == Init /\ [][Next]_vars

SpecConc == InitConc /\ [][Next]_vars

\* =============================================================== claims
\* The flash sizes of the specification's table, in the model's unit.
TableFlashSize(a) ==
    CASE a = "riscv64" -> 32 * MiB
      [] a = "aarch64" -> 64 * MiB
      [] a = "x86_64" -> 4 * MiB
      [] a = "loongarch64" -> 4 * MiB

Started(p, step) == \E i \in DOMAIN proc[p].steps : proc[p].steps[i] = step
Exits(p) == proc[p].pc = "exited"
IsPrefix(s, t) == Len(s) <= Len(t) /\ SubSeq(t, 1, Len(s)) = s
HasPrefix(str, pre) == Len(str) >= Len(pre) /\ SubSeq(str, 1, Len(pre)) = pre
Count(seq, Test(_)) == Cardinality({i \in DOMAIN seq : Test(seq[i])})

\* The image this invocation wrote (alone, nobody overwrites it).
Constructed(p) == proc[p].write = "ok"

\* C1: every constructed flash image, as it lies on disk, has length
\* exactly the architecture's flash size and starts with "PFLA"; the
\* firmware tail never reaches bytes 0..3.
C1_ImageSizeAndMagic ==
    \A p \in Procs :
        Constructed(p) =>
            /\ pflash_img.exists
            /\ Len(pflash_img.data) = TableFlashSize(proc[p].arch)
            /\ SubSeq(pflash_img.data, 1, 4) = <<80, 70, 76, 65>>
            /\ Len(proc[p].bios_data) <= Len(pflash_img.data) - 4

\* An x86_64 image holding the largest firmware the size check accepts.
C1_Witness ==
    \E p \in Procs :
        /\ Constructed(p)
        /\ proc[p].arch = "x86_64"
        /\ Len(proc[p].bios_data) = TableFlashSize("x86_64") - 4

\* C2: on x86_64 the last F bytes of the image are the firmware and bytes
\* [4, size - F) are 0xFF; on the other architectures bytes [4, size) are
\* all 0xFF.
C2_TailAndFill ==
    \A p \in Procs :
        Constructed(p) =>
            LET img == pflash_img.data
                size == Len(img)
                F == Len(proc[p].bios_data)
            IN  /\ proc[p].arch # "x86_64" => F = 0
                /\ SubSeq(img, size - F + 1, size) = proc[p].bios_data
                /\ \A i \in 5..(size - F) : img[i] = 255

\* An x86_64 image with a firmware that is neither empty nor maximal.
C2_Witness ==
    \E p \in Procs :
        /\ Constructed(p)
        /\ proc[p].arch = "x86_64"
        /\ Len(proc[p].bios_data) > 0
        /\ Len(proc[p].bios_data) < TableFlashSize("x86_64") - 4

\* C3: after the registry lookup a supported name has its profile and, once
\* its image buffer is built, the table's size; any other name has ended the
\* process with UnsupportedArchitecture and exit code 1, and nothing was
\* installed, compiled, constructed or launched for it.
C3_RegistryLookup ==
    \A p \in Procs :
        Started(p, "arch_info") =>
            IF proc[p].arch \in Supported
            THEN /\ proc[p].info.target # ""
                 /\ proc[p].info.objcopy_arch = proc[p].arch
                 /\ proc[p].image # <<>> =>
                        Len(proc[p].image) = TableFlashSize(proc[p].arch)
            ELSE /\ Exits(p)
                 /\ proc[p].err = "UnsupportedArchitecture"
                 /\ proc[p].exit_code = 1
                 /\ proc[p].steps = <<"arch_info">>
                 /\ proc[p].built_with = ""
                 /\ proc[p].image = <<>>
                 /\ proc[p].write = "none"
                 /\ ~proc[p].emu.launched

\* An invocation for an unsupported name has been through the lookup.
C3_Witness ==
    \E p \in Procs :
        /\ proc[p].arch \notin Supported
        /\ Started(p, "arch_info")
        /\ axconfig # ""

\* C4: the image file is written only with a firmware that was found and
\* passed the size check; after FirmwareNotFound or FirmwareTooLarge this
\* invocation has not written the file and has not launched the emulator.
C4_NoWriteWithoutFirmware ==
    \A p \in Procs :
        /\ proc[p].err \in {"FirmwareNotFound", "FirmwareTooLarge"} =>
              /\ Exits(p)
              /\ proc[p].write = "none"
              /\ ~Started(p, "do_run_qemu")
              /\ ~proc[p].emu.launched
        /\ (proc[p].arch = "x86_64" /\ proc[p].write # "none") =>
              /\ proc[p].err \notin {"FirmwareNotFound", "FirmwareTooLarge"}
              /\ Len(proc[p].bios_data) <= TableFlashSize("x86_64") - 4
        /\ (proc[p].arch = "x86_64" /\ Started(p, "create_pflash_image")
              /\ Len(proc[p].bios_data) > TableFlashSize("x86_64") - 4) =>
              proc[p].err = "FirmwareTooLarge"

\* The firmware read was one byte too large.
C4_Witness ==
    \E p \in Procs :
        /\ proc[p].err = "FirmwareTooLarge"
        /\ Len(proc[p].bios_data) = TableFlashSize("x86_64") - 3
        /\ pflash_img.exists

\* The order of a run invocation's steps.
RunOrder(a) ==
    IF a = "x86_64"
    THEN <<"arch_info", "install_config", "do_build",
           "create_pflash_image", "do_run_qemu">>
    ELSE <<"arch_info", "install_config", "do_build", "do_objcopy",
           "create_pflash_image", "do_run_qemu">>

\* The step in which each failure is detected.
FailsIn(e) ==
    CASE e = "UnsupportedArchitecture" -> "arch_info"
      [] e \in {"ConfigNotFound", "ConfigCopyFailed"} -> "install_config"
      [] e \in {"CompileFailed", "CompileSpawnFailed"} -> "do_build"
      [] e \in {"FlattenFailed", "FlattenSpawnFailed"} -> "do_objcopy"
      [] e \in {"FirmwareNotFound", "FirmwareReadFailed", "FirmwareTooLarge",
                "ImageWriteFailed"} -> "create_pflash_image"
      [] OTHER -> "do_run_qemu"

\* C5: the steps a run invocation has started are an initial part of
\* lookup, install, compile, flatten (non-x86), image, emulator; a failure
\* ends the process in the step that detected it, so that step is the last
\* one ever started; after a failed compile there is no flatten, no image
\* and no emulator.
C5_FailStopOrder ==
    \A p \in Procs :
        /\ proc[p].cmd = "run" => IsPrefix(proc[p].steps, RunOrder(proc[p].arch))
        /\ proc[p].err # "" =>
              /\ Exits(p)
              /\ proc[p].exit_code # 0
              /\ proc[p].steps[Len(proc[p].steps)] = FailsIn(proc[p].err)
        /\ (~Exits(p) /\ proc[p].cmd = "run" /\ proc[p].pc # "parse") =>
              IsPrefix(Append(proc[p].steps, proc[p].pc), RunOrder(proc[p].arch))
        /\ proc[p].err = "CompileFailed" =>
              /\ proc[p].objcopy_args = <<>>
              /\ proc[p].write = "none"
              /\ proc[p].args = <<>>
              /\ ~proc[p].emu.launched

\* A run whose compiler exited with code 101.
C5_Witness ==
    \E p \in Procs :
        /\ proc[p].cmd = "run"
        /\ proc[p].err = "CompileFailed"
        /\ proc[p].exit_code = 101

\* The fatal conditions the specification lists (EmulatorFailed is the
\* emulator's own non-zero exit).
ListedErrors ==
    {"UnsupportedArchitecture", "ConfigNotFound", "CompileFailed",
     "FlattenFailed", "FirmwareNotFound", "FirmwareTooLarge",
     "EmulatorLaunchFailed", "EmulatorFailed"}

\* C6: the exit code is 0 when every step succeeds; on a listed fatal
\* condition it is the failing child's exit code when there is one, and 1
\* otherwise.
C6_ExitCodes ==
    \A p \in Procs :
        Exits(p) =>
            /\ proc[p].err = "" => proc[p].exit_code = 0
            /\ proc[p].err \in ListedErrors =>
                  proc[p].exit_code =
                      IF proc[p].failed_child # <<>>
                            /\ proc[p].failed_child[1].has_code
                      THEN proc[p].failed_child[1].code
                      ELSE 1

\* A successful compile: the step ran and did not fail.
CompileSucceeded(p) ==
    /\ Started(p, "do_build")
    /\ proc[p].err \notin {"CompileFailed", "CompileSpawnFailed"}

\* The flattening step is the one after the compile, with the profile's
\* conversion architecture.
FlattenFollows(p) ==
    \/ proc[p].pc = "do_objcopy"
    \/ /\ Len(proc[p].steps) >= 4
       /\ proc[p].steps[4] = "do_objcopy"
       /\ proc[p].objcopy_args[1] =
              "--binary-architecture=" \o proc[p].arch

\* C7 as stated: in both subcommands a successful compile for a non-x86
\* architecture is followed by the flattening step, and x86_64 never is.
C7_FlattenInBuildAndRun ==
    \A p \in Procs :
        CompileSucceeded(p) =>
            IF proc[p].arch # "x86_64"
            THEN FlattenFollows(p)
            ELSE ~Started(p, "do_objcopy") /\ proc[p].pc # "do_objcopy"

\* C7 amended: in the run subcommand a successful compile for a non-x86
\* architecture is followed by the flattening step with the profile's
\* conversion architecture; x86_64 is never flattened, and the build
\* subcommand never flattens: it ends after the compile.
C7_FlattenInRunOnly ==
    \A p \in Procs :
        /\ CompileSucceeded(p) =>
              IF proc[p].cmd = "run" /\ proc[p].arch # "x86_64"
              THEN FlattenFollows(p)
              ELSE ~Started(p, "do_objcopy") /\ proc[p].pc # "do_objcopy"
        /\ (CompileSucceeded(p) /\ proc[p].cmd = "build") =>
              Exits(p) /\ proc[p].exit_code = 0
        /\ (Exits(p) /\ proc[p].err = "" /\ proc[p].cmd = "run"
              /\ proc[p].arch # "x86_64") => Started(p, "do_objcopy")

\* A run for a non-x86 architecture has flattened its ELF.
C7_Witness ==
    \E p \in Procs :
        /\ proc[p].cmd = "run"
        /\ proc[p].arch = "loongarch64"
        /\ Started(p, "do_objcopy")
        /\ proc[p].err = ""
        /\ Exits(p)

IsDriveFlag(x) == x = "-drive"
IsPflashSpec(x) == HasPrefix(x, "if=pflash")

\* C8: every argument list built holds exactly one pflash drive spec,
\* if=pflash,format=raw,unit=N,file=<image>,readonly=on, with N = 0 for
\* x86_64 and N = 1 otherwise, <image> being the file this invocation
\* constructed.
C8_DriveSpec ==
    \A p \in Procs :
        proc[p].args # <<>> =>
            /\ Count(proc[p].args, IsDriveFlag) = 1
            /\ Count(proc[p].args, IsPflashSpec) = 1
            /\ ArgAfter(proc[p].args, "-drive") =
                  "if=pflash,format=raw,unit="
                      \o (IF proc[p].arch = "x86_64" THEN "0" ELSE "1")
                      \o ",file=/work/pflash.img,readonly=on"
            /\ Constructed(p)

\* Arguments were built for loongarch64.
C8_Witness ==
    \E p \in Procs :
        /\ proc[p].args # <<>>
        /\ proc[p].arch = "loongarch64"
        /\ proc[p].emu.launched

\* C9: the kernel argument is the .bin for riscv64, aarch64 and
\* loongarch64 and the ELF for x86_64; an emulator launched on a .bin finds
\* there the flattening of the ELF this invocation's compile produced, the
\* flattening having run after the compile.
C9_KernelArgument ==
    \A p \in Procs :
        proc[p].args # <<>> =>
            /\ ArgAfter(proc[p].args, "-kernel") =
                  "/work/target/" \o proc[p].info.target
                      \o "/release/arceos-readpflash"
                      \o (IF proc[p].arch = "x86_64" THEN "" ELSE ".bin")
            /\ Count(proc[p].args, LAMBDA x : x = "-kernel") = 1
            /\ (proc[p].emu.launched /\ proc[p].arch # "x86_64") =>
                  /\ SubSeq(proc[p].steps, 3, 4) = <<"do_build", "do_objcopy">>
                  /\ proc[p].objcopy_args[2] =
                        "/work/target/" \o proc[p].info.target
                            \o "/release/arceos-readpflash"
                  /\ proc[p].emu.kernel = p
            /\ proc[p].emu.launched => proc[p].emu.kernel = p

\* An emulator was launched for aarch64 with the flattened binary as kernel.
C9_Witness ==
    \E p \in Procs :
        /\ proc[p].emu.launched
        /\ proc[p].arch = "aarch64"
        /\ HasPrefix(proc[p].args[Len(proc[p].args) - 2], "/work/target/aarch64")
        /\ pflash_img.exists

\* An invocation compiled while another architecture's config was active.
ForeignConfig(p) ==
    /\ Started(p, "do_build")
    /\ proc[p].err # "CompileSpawnFailed"
    /\ proc[p].built_with # proc[p].arch

\* An invocation's emulator opened an image of the wrong size.
ForeignImage(p) ==
    /\ proc[p].emu.launched
    /\ Len(proc[p].emu.image.data) # TableFlashSize(proc[p].arch)

\* C10: an invocation compiles under a foreign config only if another
\* invocation, for another architecture, has installed that config, and
\* launches on an image of the wrong size only if another invocation has
\* been writing the image; an invocation running alone does neither.
C10_RaceNeedsSecondInvocation ==
    \A p \in Procs :
        /\ ForeignConfig(p) =>
              \E q \in Procs \ {p} :
                  /\ proc[q].arch = proc[p].built_with
                  /\ proc[q].arch # proc[p].arch
                  /\ Started(q, "install_config")
        /\ ForeignImage(p) =>
              \E q \in Procs \ {p} : Started(q, "create_pflash_image")

\* Two invocations for different architectures: one compiled under the
\* other's config, the other launched on the first one's image.
C10_Witness ==
    \E p \in Procs, q \in Procs :
        /\ proc[p].arch # proc[q].arch
        /\ ForeignConfig(p)
        /\ proc[p].built_with = proc[q].arch
        /\ ForeignImage(q)
        /\ proc[q].emu.image.data = proc[p].image

====
